---- MODULE Spec2Model ----
(***************************************************************************)
(* The OLX price index: the paginated fetch-with-retry client              *)
(* (src/src/scraper.py), the daily aggregation (src/src/models.py) and the *)
(* per-product update loop with its CSV store (src/src/main.py).           *)
(*                                                                         *)
(* Python values are modelled as follows.                                  *)
(*   dict            a function with a set of strings as its domain; {} is *)
(*                   the function with the empty domain, <<>>              *)
(*   d.get(k, def)   Get(d, k, def)                                        *)
(*   None / null     the record None                                       *)
(*   JSON number     Num(h), h the number in hundredths (1234.56 is        *)
(*                   Num(123456)), so that int() has something to truncate *)
(*   text line       the sequence of its comma-separated fields, each a    *)
(*                   string                                                *)
(*   date            a day number; isoformat turns it into YYYY-MM-DD      *)
(***************************************************************************)
EXTENDS Integers, Sequences, FiniteSets, TLC

(***************************************************************************)
(* Program constants (src/src/scraper.py, lines 50-53 and 91).             *)
(***************************************************************************)
MAX_RETRIES == 3
RETRY_DELAY_BASE == 2
ITEMS_PER_PAGE == 50
RATE_LIMIT_WAIT == 60

(***************************************************************************)
(* Bounds of the model.                                                    *)
(***************************************************************************)
\* The calendar runs over the days 1..MaxDay.
MaxDay == 2
\* The longest price list handed to from_prices directly.
MaxPrices == 4

\* The largest total_elements the remote reports.
MaxTotal == 120

(***************************************************************************)
(* Python and JSON values.                                                 *)
(***************************************************************************)
None == [null |-> TRUE]
Num(h) == [num |-> h]
EmptyDict == <<>>
Get(d, k, def) == IF k \in DOMAIN d THEN d[k] ELSE def
\* d.get(k) == v for a string v: a missing key gives None, which equals no string.
GetIs(d, k, v) == k \in DOMAIN d /\ d[k] = v

\* int(x) of a non-null JSON number: truncation toward zero.
PyInt(x) ==
    IF x.num >= 0 THEN x.num \div 100 ELSE -((-x.num) \div 100)

RECURSIVE Pow(_, _)
Pow(b, e) == IF e = 0 THEN 1 ELSE b * Pow(b, e - 1)

RECURSIVE SumSeq(_)
SumSeq(s) == IF s = <<>> THEN 0 ELSE Head(s) + SumSeq(Tail(s))

(***************************************************************************)
(* The remote API's payloads (src/src/scraper.py, GRAPHQL_QUERY).          *)
(***************************************************************************)
PriceParam(h) ==
    ("key" :> "price") @@
    ("value" :> (("__typename" :> "PriceParam") @@ ("value" :> Num(h))))
\* A PriceParam whose value is null.
NullPriceParam ==
    ("key" :> "price") @@
    ("value" :> (("__typename" :> "PriceParam") @@ ("value" :> None)))
\* A param keyed "price" whose value is of another type: the fragment
\* "... on PriceParam" selects nothing, so the value has only its type name.
UntypedPriceParam ==
    ("key" :> "price") @@ ("value" :> ("__typename" :> "GenericParam"))
\* A param with another key.
OtherParam ==
    ("key" :> "state") @@ ("value" :> ("__typename" :> "GenericParam"))

Item(id, params) == ("id" :> id) @@ ("params" :> params)

ListingSuccess(items, total) ==
    "data" :> ("clientCompatibleListings" :>
        (("__typename" :> "ListingSuccess") @@
         ("data" :> items) @@
         ("metadata" :> ("total_elements" :> total))))

ListingError ==
    "data" :> ("clientCompatibleListings" :>
        (("__typename" :> "ListingError") @@
         ("error" :> (("code" :> "500") @@ ("detail" :> "internal")))))

\* The item lists a page can carry.
NoItems == <<>>
PricedItems ==
    << Item("a1", <<PriceParam(10000)>>),
       Item("a2", <<OtherParam>>) >>
MixedItems ==
    << Item("b1", <<NullPriceParam>>),
       Item("b2", <<OtherParam, NullPriceParam, PriceParam(25075)>>),
       Item("b3", <<UntypedPriceParam>>),
       Item("b4", <<>>) >>

(***************************************************************************)
(* Price extraction and page parsing (src/src/scraper.py, lines 119-161).  *)
(***************************************************************************)
\* The loop of _extract_price from params[i] on: the first param keyed
\* "price" with a PriceParam value that is not None decides.
RECURSIVE extract_price_from(_, _)
extract_price_from(params, i) ==
    IF i > Len(params) THEN None
    ELSE LET param == params[i]
             value == Get(param, "value", EmptyDict)
             price_val == Get(value, "value", None)
         IN  IF /\ GetIs(param, "key", "price")
                /\ GetIs(value, "__typename", "PriceParam")
                /\ price_val # None
             THEN [int |-> PyInt(price_val)]
             ELSE extract_price_from(params, i + 1)

\* extract_price as it would be if the loop gave up at the first param keyed
\* "price".
extract_price_first_key(item) ==
    LET params == Get(item, "params", <<>>)
        keyed == {i \in DOMAIN params : GetIs(params[i], "key", "price")}
    IN  IF keyed = {} THEN None
        ELSE LET i == CHOOSE j \in keyed : \A k \in keyed : j <= k
                 value == Get(params[i], "value", EmptyDict)
                 price_val == Get(value, "value", None)
             IN  IF GetIs(value, "__typename", "PriceParam") /\ price_val # None
                 THEN [int |-> PyInt(price_val)]
                 ELSE None

\* None, or [int |-> the price].
extract_price(item) == extract_price_from(Get(item, "params", <<>>), 1)

\* A Listing: the fields title, city and region are strings copied from the
\* item and play no part in any decision; the model keeps id and price.
Listing(item, price) == [id |-> Get(item, "id", ""), price |-> price.int]

RECURSIVE parse_items(_, _)
parse_items(listings, i) ==
    IF i > Len(listings) THEN <<>>
    ELSE LET price == extract_price(listings[i])
         IN  IF price = None
             THEN parse_items(listings, i + 1)
             ELSE <<Listing(listings[i], price)>> \o parse_items(listings, i + 1)

parse_listings(data) ==
    LET result == Get(Get(data, "data", EmptyDict), "clientCompatibleListings", EmptyDict)
    IN  IF GetIs(result, "__typename", "ListingError")
        THEN <<>>
        ELSE parse_items(Get(result, "data", <<>>), 1)

get_total_count(data) ==
    LET result == Get(Get(data, "data", EmptyDict), "clientCompatibleListings", EmptyDict)
    IN  Get(Get(result, "metadata", EmptyDict), "total_elements", 0)

(***************************************************************************)
(* The daily aggregation (src/src/models.py).                              *)
(* A statistic is [h |-> the value in hundredths, float |-> whether Python *)
(* holds it as a float]: statistics.mean of integers is an int when the    *)
(* quotient is exact and a float otherwise, statistics.median is the       *)
(* middle element for an odd count and a true division for an even one.    *)
(***************************************************************************)
Range(s) == {s[i] : i \in DOMAIN s}
SeqMin(s) == CHOOSE v \in Range(s) : \A w \in Range(s) : v <= w
SeqMax(s) == CHOOSE v \in Range(s) : \A w \in Range(s) : v >= w
\* sorted(s)[k], k from 1.
Kth(s, k) ==
    CHOOSE v \in Range(s) :
        /\ Cardinality({i \in DOMAIN s : s[i] < v}) < k
        /\ k <= Cardinality({i \in DOMAIN s : s[i] <= v})

\* a / n rounded to the nearest integer, ties to the even one, as round()
\* does on a quotient that a float holds exactly (n below 40).
RoundHalfEven(a, n) ==
    LET q == a \div n
        r == a % n
    IN  IF 2 * r < n THEN q
        ELSE IF 2 * r > n THEN q + 1
        ELSE IF q % 2 = 0 THEN q ELSE q + 1

\* mean(prices) cut to 2 decimals instead of rounded.
mean_truncated(prices) ==
    LET total == SumSeq(prices)
        n == Len(prices)
    IN  IF total % n = 0
        THEN [h |-> 100 * (total \div n), float |-> FALSE]
        ELSE [h |-> (100 * total) \div n, float |-> TRUE]

\* round(mean(prices), 2)
mean(prices) ==
    LET total == SumSeq(prices)
        n == Len(prices)
    IN  IF total % n = 0
        THEN [h |-> 100 * (total \div n), float |-> FALSE]
        ELSE [h |-> RoundHalfEven(100 * total, n), float |-> TRUE]

\* round(median(prices), 2)
median(prices) ==
    LET n == Len(prices)
    IN  IF n % 2 = 1
        THEN [h |-> 100 * Kth(prices, (n + 1) \div 2), float |-> FALSE]
        ELSE [h |-> 50 * (Kth(prices, n \div 2) + Kth(prices, n \div 2 + 1)),
              float |-> TRUE]

\* from_prices returning a zero-filled row for an empty list.
from_prices_zero_filled(day, prices) ==
    IF prices = <<>>
    THEN [date |-> day, count |-> 0, min_price |-> 0, max_price |-> 0,
          mean_price |-> [h |-> 0, float |-> FALSE],
          median_price |-> [h |-> 0, float |-> FALSE]]
    ELSE [date |-> day,
          count |-> Len(prices),
          min_price |-> SeqMin(prices),
          max_price |-> SeqMax(prices),
          mean_price |-> mean(prices),
          median_price |-> median(prices)]

\* DailyStats.from_prices: the ValueError of an empty list is the record
\* [raised |-> "ValueError"].
from_prices(day, prices) ==
    IF prices = <<>>
    THEN [raised |-> "ValueError"]
    ELSE [date |-> day,
          count |-> Len(prices),
          min_price |-> SeqMin(prices),
          max_price |-> SeqMax(prices),
          mean_price |-> mean(prices),
          median_price |-> median(prices)]

\* date.isoformat(): YYYY-MM-DD, the day zero-padded to two digits.  Day 1 of
\* the model's calendar is 2026-11-01.
isoformat(day) ==
    "2026-11-" \o (IF day < 10 THEN "0" ELSE "") \o ToString(day)

\* str() of a statistic: an int prints its digits, a float prints at least
\* one and at most two decimals.
FormatNumber(v) ==
    IF ~v.float THEN ToString(v.h \div 100)
    ELSE LET frac == v.h % 100
         IN  ToString(v.h \div 100) \o "." \o
             (IF frac % 10 = 0 THEN ToString(frac \div 10)
              ELSE (IF frac < 10 THEN "0" ELSE "") \o ToString(frac))

to_csv_row(stats) ==
    << isoformat(stats.date), ToString(stats.count), ToString(stats.min_price),
       ToString(stats.max_price), FormatNumber(stats.mean_price),
       FormatNumber(stats.median_price) >>

csv_header == <<"date", "count", "min", "max", "mean", "median">>

(***************************************************************************)
(* The store of one product (src/src/main.py, lines 48-76): a file is      *)
(* [exists |-> BOOLEAN, lines |-> the sequence of its lines].              *)
(***************************************************************************)
NoFile == [exists |-> FALSE, lines |-> <<>>]
EmptyFile == [exists |-> TRUE, lines |-> <<>>]

\* append_to_csv as it would be with open(csv_path, "w").
append_to_csv_truncating(file, stats) ==
    LET write_header == ~file.exists \/ Len(file.lines) = 0
    IN  [exists |-> TRUE,
         lines |-> (IF write_header THEN <<csv_header>> ELSE <<>>)
                   \o <<to_csv_row(stats)>>]

\* append_to_csv as it would be if only a new file got the header.
append_to_csv_header_new_file(file, stats) ==
    LET write_header == ~file.exists
    IN  [exists |-> TRUE,
         lines |-> file.lines
                   \o (IF write_header THEN <<csv_header>> ELSE <<>>)
                   \o <<to_csv_row(stats)>>]

append_to_csv(file, stats) ==
    LET write_header == ~file.exists \/ Len(file.lines) = 0
    IN  [exists |-> TRUE,
         lines |-> file.lines
                   \o (IF write_header THEN <<csv_header>> ELSE <<>>)
                   \o <<to_csv_row(stats)>>]

\* line.startswith(today_str): today_str is the ten characters of a date and
\* holds no comma, so it is a prefix of the line exactly when it is the
\* line's first field (every first field the program writes is "date" or
\* the ten characters of a date).
StartsWith(line, today_str) == Len(line) > 0 /\ line[1] = today_str

\* should_update_today as it would be if only the last line were read.
should_update_today_last_line(file, day) ==
    IF ~file.exists THEN TRUE
    ELSE ~ (/\ file.lines # <<>>
            /\ StartsWith(file.lines[Len(file.lines)], isoformat(day)))

\* should_update_today as it would be if the loop returned after its first
\* line.
should_update_today_first_line(file, day) ==
    IF ~file.exists THEN TRUE
    ELSE ~ (/\ file.lines # <<>>
            /\ StartsWith(file.lines[1], isoformat(day)))

should_update_today(file, day) ==
    IF ~file.exists THEN TRUE
    ELSE ~ \E i \in DOMAIN file.lines : StartsWith(file.lines[i], isoformat(day))

(***************************************************************************)
(* The state.                                                              *)
(*   today   the calendar day, what date.today() returns                   *)
(*   store   the CSV file of each product slug                             *)
(*   remote  what the remote API can answer: the totals it reports and the *)
(*           item lists its pages carry                                    *)
(*   written per slug, the days for which a row was appended, in the order *)
(*           of the appends (a record of what happened, read by no action) *)
(*   calc    a direct call of DailyStats.from_prices: its arguments and,    *)
(*           once it has returned or raised, its outcome                   *)
(*   run     per process, the frame of main(): its position, the loop      *)
(*           index, the scraper's client, and what the run has produced    *)
(*           (nodata: the products whose fetch returned nothing; closes:   *)
(*           how often the client was closed; checked: during a fetch, the *)
(*           day should_update_today read before it, 0 otherwise)          *)
(*   fa      per process, the frame of OLXScraper.fetch_all                *)
(*   mr      per process, the frame of OLXScraper._make_request            *)
(***************************************************************************)
VARIABLES today, store, written, remote, calc, run, fa, mr

vars == <<today, store, written, remote, calc, run, fa, mr>>

\* load_products(): the configured products, in list order, by slug.
products == <<"aeron", "embody">>
Slugs == Range(products)

Days == 1..MaxDay

\* The totals a first page reports: zero, and the totals around each page
\* boundary up to MaxTotal.
Totals ==
    {0} \cup {t \in 1..MaxTotal :
                 \/ t % ITEMS_PER_PAGE \in {0, 1, ITEMS_PER_PAGE - 1}
                 \/ t = MaxTotal}

\* The remote of the fetch client's own specification, and the smaller one
\* of the whole program's.
FetchRemote == [totals |-> Totals, bodies |-> {NoItems, PricedItems, MixedItems}]
RunRemote ==
    [totals |-> {0, 1, ITEMS_PER_PAGE + 1}, bodies |-> {NoItems, PricedItems}]

\* What client.post can produce: a response with a status code and a JSON
\* body, or the exception httpx.RequestError.
Response(status_code, json) == [status_code |-> status_code, json |-> json]
RequestError == [exc |-> "RequestError"]
IsResponse(r) == "status_code" \in DOMAIN r

\* The answers the remote can give to the request in progress.  A page after
\* the first reports the total the first page reported; a total of zero
\* comes with no item.
Responses(self) ==
    LET f == fa[self]
        totals == IF f.call = "first" THEN remote.totals ELSE {f.total}
        successes ==
            {ListingSuccess(b, t) : <<b, t>> \in
                {x \in remote.bodies \X totals : x[2] = 0 => x[1] = NoItems}}
    IN  {Response(200, j) : j \in successes \cup {ListingError}}
        \cup {Response(429, EmptyDict), Response(500, EmptyDict), RequestError}

FaIdle ==
    [pc |-> "idle", call |-> "none", product |-> "", offset |-> 0, total |-> 0,
     listings |-> <<>>, data |-> None, requested |-> <<>>, delays |-> 0,
     pages |-> <<>>, error |-> "none"]
MrIdle == [attempt |-> 0, responses |-> <<>>, sleeps |-> <<>>]

RunIdle ==
    [pc |-> "idle", idx |-> 0, client |-> "none", charts |-> {},
     fetched |-> {}, skipped |-> {}, nodata |-> {}, closes |-> 0,
     checked |-> 0, overview |-> FALSE, readme |-> FALSE]

\* No direct call of from_prices is in progress.
NoCalc == [pc |-> "none"]

InitWith(procs, world, frame, files) ==
    /\ today = 1
    /\ store \in [Slugs -> files]
    /\ written = [s \in Slugs |-> <<>>]
    /\ remote = world
    /\ calc = NoCalc
    /\ run = [p \in procs |-> frame]
    /\ fa = [p \in procs |-> FaIdle]
    /\ mr = [p \in procs |-> MrIdle]

Procs == DOMAIN run

(***************************************************************************)
(* OLXScraper._make_request (src/src/scraper.py, lines 74-117).            *)
(***************************************************************************)
\* raise_for_status() raises for every status that is not 2xx.
raise_for_status(status_code) == status_code \notin 200..299

\* may_retry as it would be if the last attempt slept too.
may_retry_always(attempt) == attempt < MAX_RETRIES

\* Lines 101 and 110: whether a failed attempt is followed by another one.
may_retry(attempt) == attempt < MAX_RETRIES - 1

\* backoff as it would be with the exponent `attempt`.
backoff_from_zero(attempt) == Pow(RETRY_DELAY_BASE, attempt)

\* Lines 102 and 111.
backoff(attempt) == Pow(RETRY_DELAY_BASE, attempt + 1)

\* _make_request returns `data` to fetch_all.
Return(self, r, data) ==
    /\ mr' = [mr EXCEPT ![self].responses = Append(@, r)]
    /\ fa' = [fa EXCEPT ![self].pc = "got", ![self].data = data]

\* _make_request sleeps `secs` and goes to the next iteration of its loop.
SleepAndRetry(self, r, secs) ==
    /\ mr' = [mr EXCEPT ![self].responses = Append(@, r),
                        ![self].sleeps = Append(@, secs),
                        ![self].attempt = @ + 1]
    /\ UNCHANGED fa

\* The exception `exc` leaves _make_request and fetch_all.
Raise(self, r, exc) ==
    /\ mr' = [mr EXCEPT ![self].responses = Append(@, r)]
    /\ fa' = [fa EXCEPT ![self].pc = "raised", ![self].error = exc]

\* What line 117 returns when the loop runs out.
exhausted_result == EmptyDict

\* RateLimited as it would be if a 429 retried in the same attempt slot.
RateLimitedSameSlot(self, r) ==
    /\ mr' = [mr EXCEPT ![self].responses = Append(@, r),
                        ![self].sleeps = Append(@, RATE_LIMIT_WAIT)]
    /\ UNCHANGED fa

\* The 429 branch, lines 90-94, and the loop's end, line 117.
RateLimited(self, r) ==
    IF mr[self].attempt + 1 < MAX_RETRIES
    THEN SleepAndRetry(self, r, RATE_LIMIT_WAIT)
    ELSE /\ mr' = [mr EXCEPT ![self].responses = Append(@, r),
                             ![self].sleeps = Append(@, RATE_LIMIT_WAIT),
                             ![self].attempt = @ + 1]
         /\ fa' = [fa EXCEPT ![self].pc = "got", ![self].data = exhausted_result]

\* The two except branches, lines 99-115.
Failed(self, r, exc) ==
    IF may_retry(mr[self].attempt)
    THEN SleepAndRetry(self, r, backoff(mr[self].attempt))
    ELSE Raise(self, r, exc)

\* One iteration of the loop of line 86: one client.post and what follows it.
Attempt(self) ==
    /\ fa[self].pc = "request"
    /\ run[self].client = "open"
    /\ mr[self].attempt < MAX_RETRIES
    /\ \E r \in Responses(self) :
          IF ~IsResponse(r) THEN Failed(self, r, "RequestError")
          ELSE IF r.status_code = 429 THEN RateLimited(self, r)
          ELSE IF raise_for_status(r.status_code)
               THEN Failed(self, r, "HTTPStatusError")
               ELSE Return(self, r, r.json)
    /\ UNCHANGED <<today, store, written, remote, calc, run>>

(***************************************************************************)
(* OLXScraper.fetch_all (src/src/scraper.py, lines 163-188).               *)
(***************************************************************************)
\* BeginFetch as it would be if the delay came before every request.
BeginFetchDelayed(self, product) ==
    /\ fa' = [fa EXCEPT ![self] =
                [FaIdle EXCEPT !.pc = "request", !.call = "first",
                               !.product = product, !.requested = <<0>>,
                               !.delays = 1]]
    /\ mr' = [mr EXCEPT ![self] = MrIdle]

\* Lines 165-168: fetch_all is entered and calls _make_request(query, 0).
BeginFetch(self, product) ==
    /\ fa' = [fa EXCEPT ![self] =
                [FaIdle EXCEPT !.pc = "request", !.call = "first",
                               !.product = product, !.requested = <<0>>]]
    /\ mr' = [mr EXCEPT ![self] = MrIdle]

\* more_pages as it would be with <= for <.
more_pages_inclusive(offset, total) == offset <= total

\* Line 180.
more_pages(offset, total) == offset < total

\* Lines 179 and 184.
next_offset(offset) == offset + ITEMS_PER_PAGE

\* LoopFrom as it would be if an error page ended the fetch.
LoopFromStopOnError(self, f, offset) ==
    IF more_pages(offset, f.total) /\ f.pages[Len(f.pages)] # ListingError
    THEN /\ fa' = [fa EXCEPT ![self] =
                     [f EXCEPT !.pc = "request", !.call = "page",
                               !.offset = offset, !.data = None,
                               !.requested = Append(@, offset),
                               !.delays = @ + 1]]
         /\ mr' = [mr EXCEPT ![self] = MrIdle]
    ELSE /\ fa' = [fa EXCEPT ![self] = [f EXCEPT !.pc = "returned", !.data = None]]
         /\ UNCHANGED mr

\* Lines 180-182: the loop test, and either the delay and the next
\* _make_request or the return of line 188.
LoopFrom(self, f, offset) ==
    IF more_pages(offset, f.total)
    THEN /\ fa' = [fa EXCEPT ![self] =
                     [f EXCEPT !.pc = "request", !.call = "page",
                               !.offset = offset, !.data = None,
                               !.requested = Append(@, offset),
                               !.delays = @ + 1]]
         /\ mr' = [mr EXCEPT ![self] = MrIdle]
    ELSE /\ fa' = [fa EXCEPT ![self] = [f EXCEPT !.pc = "returned", !.data = None]]
         /\ UNCHANGED mr

\* fetch_all goes on after _make_request has returned: lines 169-179 after
\* the first request, lines 183-184 after a later one.
Continue(self) ==
    /\ fa[self].pc = "got"
    /\ LET f == fa[self]
           data == f.data
           g == [f EXCEPT !.pages = Append(@, data)]
       IN  IF f.call = "first"
           THEN LET total == get_total_count(data)
                IN  IF total = 0
                    THEN /\ fa' = [fa EXCEPT ![self] =
                                     [g EXCEPT !.pc = "returned", !.total = total,
                                               !.listings = <<>>, !.data = None]]
                         /\ UNCHANGED mr
                    ELSE LoopFrom(self,
                                  [g EXCEPT !.total = total,
                                            !.listings = parse_listings(data)],
                                  next_offset(0))
           ELSE LoopFrom(self,
                         [g EXCEPT !.listings = @ \o parse_listings(data)],
                         next_offset(f.offset))
    /\ UNCHANGED <<today, store, written, remote, calc, run>>

\* A caller of the scraper alone: fetch_all is called for some product.
CallFetchAll(self) ==
    /\ run[self].pc = "caller"
    /\ fa[self].pc \in {"idle", "returned", "raised"}
    /\ \E product \in Slugs : BeginFetch(self, product)
    /\ UNCHANGED <<today, store, written, remote, calc, run>>

(***************************************************************************)
(* main (src/src/main.py, lines 153-202).                                  *)
(***************************************************************************)
\* Lines 155-163: a run starts; the products are loaded and the scraper is
\* opened.  (The product list is not empty, so line 161 is not reached.)
StartRun(self) ==
    /\ run[self].pc \in {"idle", "done", "aborted"}
    /\ run' = [run EXCEPT ![self] =
                 [RunIdle EXCEPT !.pc = "loop", !.idx = 1, !.client = "open"]]
    /\ fa' = [fa EXCEPT ![self] = FaIdle]
    /\ mr' = [mr EXCEPT ![self] = MrIdle]
    /\ UNCHANGED <<today, store, written, remote, calc>>

AtProduct(self) ==
    /\ run[self].pc = "loop"
    /\ run[self].idx <= Len(products)

\* Skip as it would be without the continue of line 172: the fetch follows.
SkipWithoutContinue(self) ==
    /\ AtProduct(self)
    /\ ~should_update_today(store[products[run[self].idx]], today)
    /\ run' = [run EXCEPT ![self].pc = "fetching",
                          ![self].skipped = @ \cup {products[run[self].idx]},
                          ![self].fetched = @ \cup {products[run[self].idx]}]
    /\ BeginFetch(self, products[run[self].idx])
    /\ UNCHANGED <<today, store, written, remote, calc>>

\* Lines 170-172: today's row is there, the product is skipped.
Skip(self) ==
    /\ AtProduct(self)
    /\ ~should_update_today(store[products[run[self].idx]], today)
    /\ run' = [run EXCEPT ![self].idx = @ + 1,
                          ![self].skipped = @ \cup {products[run[self].idx]}]
    /\ UNCHANGED <<today, store, written, remote, calc, fa, mr>>

\* Lines 170 and 175: no row for today, fetch_all is called.
Fetch(self) ==
    /\ AtProduct(self)
    /\ should_update_today(store[products[run[self].idx]], today)
    /\ run' = [run EXCEPT ![self].pc = "fetching",
                          ![self].checked = today,
                          ![self].fetched = @ \cup {products[run[self].idx]}]
    /\ BeginFetch(self, products[run[self].idx])
    /\ UNCHANGED <<today, store, written, remote, calc>>

\* NoListings as it would be without the test of line 177: from_prices
\* raises on the empty list and the exception ends the run.
NoListingsAggregated(self) ==
    /\ run[self].pc = "fetching"
    /\ fa[self].pc = "returned"
    /\ fa[self].listings = <<>>
    /\ run' = [run EXCEPT ![self].pc = "aborted", ![self].client = "closed",
                          ![self].closes = @ + 1]
    /\ fa' = [fa EXCEPT ![self] = FaIdle]
    /\ mr' = [mr EXCEPT ![self] = MrIdle]
    /\ UNCHANGED <<today, store, written, remote, calc>>

\* Lines 177-179: fetch_all returned nothing.
NoListings(self) ==
    /\ run[self].pc = "fetching"
    /\ fa[self].pc = "returned"
    /\ fa[self].listings = <<>>
    /\ run' = [run EXCEPT ![self].pc = "loop", ![self].idx = @ + 1,
                          ![self].checked = 0,
                          ![self].nodata = @ \cup {products[run[self].idx]}]
    /\ fa' = [fa EXCEPT ![self] = FaIdle]
    /\ mr' = [mr EXCEPT ![self] = MrIdle]
    /\ UNCHANGED <<today, store, written, remote, calc>>

\* Line 182.
prices_of(listings) == [i \in DOMAIN listings |-> listings[i].price]

\* Lines 181-193: the statistics of today, the row, the dashboard.
Update(self) ==
    /\ run[self].pc = "fetching"
    /\ fa[self].pc = "returned"
    /\ fa[self].listings # <<>>
    /\ LET slug == products[run[self].idx]
           stats == from_prices(today, prices_of(fa[self].listings))
       IN  /\ store' = [store EXCEPT ![slug] = append_to_csv(@, stats)]
           /\ written' = [written EXCEPT ![slug] = Append(@, today)]
           /\ run' = [run EXCEPT ![self].pc = "loop", ![self].idx = @ + 1,
                                 ![self].checked = 0,
                                 ![self].charts = @ \cup {slug}]
    /\ fa' = [fa EXCEPT ![self] = FaIdle]
    /\ mr' = [mr EXCEPT ![self] = MrIdle]
    /\ UNCHANGED <<today, remote, calc>>

\* Abort as it would be without the with block: the exception ends main and
\* nothing closes the client.
AbortWithoutExit(self) ==
    /\ run[self].pc = "fetching"
    /\ fa[self].pc = "raised"
    /\ run' = [run EXCEPT ![self].pc = "aborted"]
    /\ fa' = [fa EXCEPT ![self] = FaIdle]
    /\ mr' = [mr EXCEPT ![self] = MrIdle]
    /\ UNCHANGED <<today, store, written, remote, calc>>

\* Abort as it would be if main caught the exception of one product and
\* went on with the next.
AbortIsolated(self) ==
    /\ run[self].pc = "fetching"
    /\ fa[self].pc = "raised"
    /\ run' = [run EXCEPT ![self].pc = "loop", ![self].idx = @ + 1]
    /\ fa' = [fa EXCEPT ![self] = FaIdle]
    /\ mr' = [mr EXCEPT ![self] = MrIdle]
    /\ UNCHANGED <<today, store, written, remote, calc>>

\* The exception of fetch_all leaves the with block of line 163, whose
\* __exit__ closes the client (scraper.py, lines 71-72), and ends main.
Abort(self) ==
    /\ run[self].pc = "fetching"
    /\ fa[self].pc = "raised"
    /\ run' = [run EXCEPT ![self].pc = "aborted", ![self].client = "closed",
                          ![self].checked = 0,
                          ![self].closes = @ + 1]
    /\ fa' = [fa EXCEPT ![self] = FaIdle]
    /\ mr' = [mr EXCEPT ![self] = MrIdle]
    /\ UNCHANGED <<today, store, written, remote, calc>>

\* Lines 163 and 195-202: the loop ends, the client is closed, the overview
\* chart and the README are generated.
Finish(self) ==
    /\ run[self].pc = "loop"
    /\ run[self].idx > Len(products)
    /\ run' = [run EXCEPT ![self].pc = "done", ![self].client = "closed",
                          ![self].closes = @ + 1,
                          ![self].overview = TRUE, ![self].readme = TRUE]
    /\ UNCHANGED <<today, store, written, remote, calc, fa, mr>>

\* Midnight.
Tick ==
    /\ today < MaxDay
    /\ today' = today + 1
    /\ UNCHANGED <<store, written, remote, calc, run, fa, mr>>

(***************************************************************************)
(* The specifications.                                                     *)
(*   Spec       one process runs main() again and again while the days go  *)
(*              by                                                         *)
(*   SpecFetch  the scraper alone, with a caller that calls fetch_all      *)
(*              again and again                                            *)
(***************************************************************************)
\* Each store starts nonexistent or empty.
Init == InitWith({1}, RunRemote, RunIdle, {NoFile, EmptyFile})

Next ==
    \/ \E self \in Procs : StartRun(self)
    \/ \E self \in Procs : Skip(self)
    \/ \E self \in Procs : Fetch(self)
    \/ \E self \in Procs : Attempt(self)
    \/ \E self \in Procs : Continue(self)
    \/ \E self \in Procs : NoListings(self)
    \/ \E self \in Procs : Update(self)
    \/ \E self \in Procs : Abort(self)
    \/ \E self \in Procs : Finish(self)
    \/ Tick

Spec == Init /\ [][Next]_vars

\* A step of the program itself (not midnight, and not the start of another
\* run).
ProcStep(self) ==
    \/ Skip(self)
    \/ Fetch(self)
    \/ Attempt(self)
    \/ Continue(self)
    \/ NoListings(self)
    \/ Update(self)
    \/ Abort(self)
    \/ Finish(self)

\* The runs of one day (the calendar plays no part in the client's
\* lifetime), with a program that goes on: the thread is alone, every post
\* ends (the client's timeout) and every sleep ends, so a step that can be
\* taken is taken.
NextOneDay ==
    \/ \E self \in Procs : StartRun(self)
    \/ \E self \in Procs : ProcStep(self)

SpecLive ==
    Init /\ [][NextOneDay]_vars /\ WF_vars(\E self \in Procs : ProcStep(self))

\* Two processes run main() on the same day, each with its own scraper, on
\* the same stores.
RaceRemote == [totals |-> {1}, bodies |-> {PricedItems}]

InitRace == InitWith({1, 2}, RaceRemote, RunIdle, {NoFile})

SpecRace == InitRace /\ [][NextOneDay]_vars

\* DailyStats.from_prices called directly, on every list of at most MaxPrices
\* prices (whole currency units).
PriceValues == {1, 2, 100, 250}

PriceLists == UNION {[1..n -> PriceValues] : n \in 0..MaxPrices}

InitStats ==
    /\ today = 1
    /\ store = [s \in Slugs |-> NoFile]
    /\ written = [s \in Slugs |-> <<>>]
    /\ remote = RunRemote
    /\ run = [p \in {} |-> RunIdle]
    /\ fa = [p \in {} |-> FaIdle]
    /\ mr = [p \in {} |-> MrIdle]
    /\ calc \in {[pc |-> "call", day |-> d, prices |-> P, result |-> None] :
                    d \in Days, P \in PriceLists}

CallFromPrices ==
    /\ calc.pc = "call"
    /\ LET result == from_prices(calc.day, calc.prices)
       IN  calc' = [calc EXCEPT
                       !.pc = IF "raised" \in DOMAIN result
                              THEN "raised" ELSE "returned",
                       !.result = result]
    /\ UNCHANGED <<today, store, written, remote, run, fa, mr>>

NextStats == CallFromPrices

SpecStats == InitStats /\ [][NextStats]_vars

InitFetch ==
    InitWith({1}, FetchRemote,
             [RunIdle EXCEPT !.pc = "caller", !.client = "open"], {NoFile})

NextFetch ==
    \/ \E self \in Procs : CallFetchAll(self)
    \/ \E self \in Procs : Attempt(self)
    \/ \E self \in Procs : Continue(self)

SpecFetch == InitFetch /\ [][NextFetch]_vars

(***************************************************************************)
(* Properties of the fetch client, checked under SpecFetch.                *)
(***************************************************************************)
\* A response with a 2xx status.
IsSuccess(r) == IsResponse(r) /\ r.status_code \in 200..299
\* A transient failure other than a rate limit: an error status that is not
\* 429, or a transport error.
IsTransient(r) == ~IsResponse(r) \/ (r.status_code # 429 /\ ~IsSuccess(r))
IsRateLimit(r) == IsResponse(r) /\ r.status_code = 429

CeilDiv(a, b) == (a + b - 1) \div b

\* Every _make_request of the fetch returned the payload of a 2xx response.
EveryRequestSucceeded(f) == \A i \in DOMAIN f.pages : f.pages[i] # EmptyDict

\* C1: a fetch_all that learnt a total > 0 from its first page, all of whose
\* requests succeeded, has issued exactly ceil(total / ITEMS_PER_PAGE) page
\* requests, at the offsets 0, P, 2P, ... in this order, each below total
\* and none twice.
C1_Pagination ==
    \A self \in Procs :
        LET f == fa[self]
            n == Len(f.requested)
        IN  (f.pc = "returned" /\ f.total > 0 /\ EveryRequestSucceeded(f)) =>
                /\ n = CeilDiv(f.total, ITEMS_PER_PAGE)
                /\ \A i \in 1..n : f.requested[i] = (i - 1) * ITEMS_PER_PAGE
                /\ \A i \in 1..n : f.requested[i] < f.total
                /\ \A i, j \in 1..n : i < j => f.requested[i] < f.requested[j]

C1_Witness ==
    /\ fa[1].pc = "returned"
    /\ fa[1].total = 120
    /\ EveryRequestSucceeded(fa[1])
    /\ fa[1].requested = <<0, 50, 100>>

\* C2: once the first page has reported a total of 0, fetch_all has returned
\* the empty sequence, after one page request, without an inter-page delay
\* and without raising.
C2_ZeroTotal ==
    \A self \in Procs :
        LET f == fa[self]
        IN  (/\ Len(f.pages) >= 1
             /\ f.pages[1] # EmptyDict
             /\ get_total_count(f.pages[1]) = 0) =>
                /\ f.pc = "returned"
                /\ f.listings = <<>>
                /\ f.requested = <<0>>
                /\ f.delays = 0
                /\ f.error = "none"

C2_Witness ==
    /\ fa[1].pc = "returned"
    /\ fa[1].pages = <<ListingSuccess(NoItems, 0)>>
    /\ fa[1].listings = <<>>

\* Whether some param of the item is keyed "price" with a PriceParam value
\* that is not null.
HasExtractablePrice(item) ==
    \E i \in DOMAIN item["params"] :
        LET param == item["params"][i]
        IN  /\ param["key"] = "price"
            /\ param["value"]["__typename"] = "PriceParam"
            /\ param["value"]["value"] # None

\* The items a payload carries.
ItemsOf(data) ==
    IF data # EmptyDict /\ "data" \in DOMAIN data["data"]["clientCompatibleListings"]
    THEN data["data"]["clientCompatibleListings"]["data"]
    ELSE <<>>

RECURSIVE PricedIds(_)
PricedIds(items) ==
    IF items = <<>> THEN <<>>
    ELSE (IF HasExtractablePrice(Head(items)) THEN <<Head(items)["id"]>> ELSE <<>>)
         \o PricedIds(Tail(items))

RECURSIVE PricedIdsOfPages(_)
PricedIdsOfPages(pages) ==
    IF pages = <<>> THEN <<>>
    ELSE PricedIds(ItemsOf(Head(pages))) \o PricedIdsOfPages(Tail(pages))

\* C3: what fetch_all returns holds one Listing for each item of the fetched
\* pages that has an extractable price, in page order, and nothing else; an
\* item without one is dropped and raises nothing.
C3_PricedItemsOnly ==
    \A self \in Procs :
        LET f == fa[self]
        IN  f.pc = "returned" =>
                /\ [i \in DOMAIN f.listings |-> f.listings[i].id]
                       = PricedIdsOfPages(f.pages)
                /\ f.error = "none"

C3_Witness ==
    /\ fa[1].pc = "returned"
    /\ Len(fa[1].pages) = 2
    /\ ItemsOf(fa[1].pages[1]) = MixedItems
    /\ ItemsOf(fa[1].pages[2]) = PricedItems
    /\ fa[1].listings = <<[id |-> "b2", price |-> 250], [id |-> "a1", price |-> 100]>>

\* C4: a request whose first k attempts fail with a transient error that is
\* no rate limit and whose attempt k+1 gets a 2xx response returns that
\* response's payload after the k sleeps RETRY_DELAY_BASE^1 .. ^k, and no
\* attempt follows a successful one.
C4_RetryThenSuccess ==
    \A self \in Procs :
        LET rs == mr[self].responses
            n == Len(rs)
        IN  /\ \A i \in 1..n : IsSuccess(rs[i]) => i = n
            /\ (/\ n >= 1
                /\ IsSuccess(rs[n])
                /\ \A i \in 1..(n - 1) : IsTransient(rs[i])) =>
                   /\ mr[self].sleeps = [i \in 1..(n - 1) |-> Pow(RETRY_DELAY_BASE, i)]
                   /\ fa[self].pc \in {"got", "returned"}
                   /\ fa[self].pc = "got" => fa[self].data = rs[n].json

C4_Witness ==
    /\ fa[1].pc = "got"
    /\ Len(mr[1].responses) = 3
    /\ IsTransient(mr[1].responses[1])
    /\ IsTransient(mr[1].responses[2])
    /\ IsSuccess(mr[1].responses[3])
    /\ mr[1].sleeps = <<2, 4>>
    /\ fa[1].data = mr[1].responses[3].json

\* C5: when MAX_RETRIES attempts in a row of one request fail with an error
\* status that is not 429 or with a transport error, the last failure leaves
\* _make_request and fetch_all after MAX_RETRIES posts and MAX_RETRIES - 1
\* sleeps, and fetch_all returns nothing.
C5_RetriesExhausted ==
    \A self \in Procs :
        LET rs == mr[self].responses
            n == Len(rs)
        IN  (n >= MAX_RETRIES /\ \A i \in 1..MAX_RETRIES : IsTransient(rs[i])) =>
                /\ n = MAX_RETRIES
                /\ Len(mr[self].sleeps) = MAX_RETRIES - 1
                /\ mr[self].sleeps =
                       [i \in 1..(MAX_RETRIES - 1) |-> Pow(RETRY_DELAY_BASE, i)]
                /\ fa[self].pc = "raised"
                /\ fa[self].error =
                       (IF IsResponse(rs[n]) THEN "HTTPStatusError" ELSE "RequestError")

C5_Witness ==
    /\ fa[1].pc = "raised"
    /\ fa[1].error = "HTTPStatusError"
    /\ Len(mr[1].responses) = MAX_RETRIES
    /\ \A i \in 1..MAX_RETRIES : IsTransient(mr[1].responses[i])
    /\ mr[1].sleeps = <<2, 4>>
    /\ fa[1].listings # <<>>

\* C6 (as the specification states it): a request whose every attempt is
\* answered with 429 ends in a failure that leaves _make_request and
\* fetch_all, not in a returned value.
C6_RateLimitFatal ==
    \A self \in Procs :
        LET rs == mr[self].responses
        IN  (Len(rs) = MAX_RETRIES /\ \A i \in 1..MAX_RETRIES : IsRateLimit(rs[i])) =>
                fa[self].pc = "raised"

(***************************************************************************)
(* Properties of the store and of the update loop, checked under Spec.     *)
(***************************************************************************)
\* C7: should_update_today is true for a store that does not exist, false
\* for exactly the days for which a row was appended to the store, and so
\* true again on every later day without a row; the header row matches no
\* day.
C7_ShouldUpdateToday ==
    \A slug \in Slugs :
        LET file == store[slug]
        IN  /\ ~file.exists => \A d \in Days : should_update_today(file, d)
            /\ \A d \in Days :
                  should_update_today(file, d) <=> d \notin Range(written[slug])

C7_Witness ==
    /\ today = 2
    /\ \E slug \in Slugs :
          /\ written[slug] = <<1>>
          /\ store[slug].lines[1] = csv_header
          /\ ~should_update_today(store[slug], 1)
          /\ should_update_today(store[slug], 2)

\* The lines of a file whose leading field is the day d.
RowsOf(file, d) == {i \in DOMAIN file.lines : file.lines[i][1] = isoformat(d)}

\* C8: with one process and a calendar that never goes back, every store
\* holds at most one data row per calendar date, whatever runs completed or
\* aborted.
C8_OneRowPerDate ==
    \A slug \in Slugs : \A d \in Days : Cardinality(RowsOf(store[slug], d)) <= 1

C8_Witness ==
    /\ run[1].pc = "aborted"
    /\ today = 2
    /\ \E slug \in Slugs :
          /\ Cardinality(RowsOf(store[slug], 1)) = 1
          /\ Cardinality(RowsOf(store[slug], 2)) = 1

IsDataRow(line) ==
    /\ Len(line) = Len(csv_header)
    /\ line # csv_header
    /\ \E d \in Days : line[1] = isoformat(d)

\* A step that changes the file of `slug` is the append of an update of that
\* product: the lines of before stay, in their order, and one data row comes
\* after them (after the header, when the file had no line).
C9_Step(slug) ==
    LET old == store[slug].lines
        new == store'[slug].lines
    IN  \/ store'[slug] = store[slug]
        \/ /\ \E self \in Procs :
                 /\ run[self].pc = "fetching"
                 /\ fa[self].pc = "returned"
                 /\ fa[self].listings # <<>>
                 /\ products[run[self].idx] = slug
           /\ store'[slug].exists
           /\ Len(new) > Len(old)
           /\ SubSeq(new, 1, Len(old)) = old
           /\ IsDataRow(new[Len(new)])
           /\ \/ Len(new) = Len(old) + 1
              \/ old = <<>> /\ Len(new) = 2 /\ new[1] = csv_header

\* C9: the store is append-only: an append leaves the lines of the store as
\* they were and adds one data row at the end, and no other step changes a
\* store.
C9_AppendOnly == [][\A slug \in Slugs : C9_Step(slug)]_vars

C9_Witness ==
    \E slug \in Slugs :
        /\ written[slug] = <<1, 2>>
        /\ Len(store[slug].lines) = 3
        /\ store[slug].lines[1] = csv_header
        /\ IsDataRow(store[slug].lines[2])
        /\ IsDataRow(store[slug].lines[3])

\* C20: after any sequence of append_to_csv calls on a store that started
\* nonexistent or empty, the store's first line is the header row
\* date,count,min,max,mean,median, the header occurs exactly once, and every
\* other line is a data row, one for each append.
C20_HeaderOnce ==
    \A slug \in Slugs :
        LET L == store[slug].lines
        IN  IF written[slug] = <<>>
            THEN L = <<>>
            ELSE /\ store[slug].exists
                 /\ L[1] = csv_header
                 /\ Cardinality({i \in DOMAIN L : L[i] = csv_header}) = 1
                 /\ Len(L) = Len(written[slug]) + 1
                 /\ \A i \in 2..Len(L) : IsDataRow(L[i])

C20_Witness ==
    \A slug \in Slugs :
        /\ written[slug] = <<1, 2>>
        /\ store[slug].lines[1] = csv_header
        /\ store[slug].lines[2][1] = isoformat(1)
        /\ store[slug].lines[3][1] = isoformat(2)
        /\ Len(store[slug].lines) = 3

\* A product skipped in this run was neither fetched nor charted in it.
C10_Skipped ==
    \A self \in Procs :
        run[self].skipped \cap (run[self].fetched \cup run[self].charts) = {}

\* The step main takes at a product whose store has today's row: the loop
\* goes to the next product; no request, no store and no chart changes.
C10_Step ==
    \A self \in Procs :
        (/\ AtProduct(self)
         /\ ~should_update_today(store[products[run[self].idx]], today)
         /\ run'[self] # run[self]) =>
            /\ run'[self] =
                  [run[self] EXCEPT !.idx = @ + 1,
                                    !.skipped = @ \cup {products[run[self].idx]}]
            /\ store' = store
            /\ fa' = fa
            /\ mr' = mr

\* C10: when should_update_today is false for a product, the run issues no
\* page request for it, leaves its store as it is, requests no chart for it
\* and goes on to the next product of the list.
C10_SkipNoFetch == []C10_Skipped /\ [][C10_Step]_vars

C10_Witness ==
    /\ run[1].skipped = {products[1]}
    /\ run[1].fetched = {products[2]}
    /\ run[1].pc = "fetching"
    /\ mr[1].responses # <<>>

\* A product whose fetch returned nothing in this run was not charted in it.
C11_NoData ==
    \A self \in Procs : run[self].nodata \cap run[self].charts = {}

\* The step main takes when fetch_all has returned the empty sequence: the
\* loop goes to the next product; no store, no record of an append and no
\* chart changes, and the run does not end.
C11_Step ==
    \A self \in Procs :
        (/\ run[self].pc = "fetching"
         /\ fa[self].pc = "returned"
         /\ fa[self].listings = <<>>
         /\ run'[self] # run[self]) =>
            /\ run'[self] =
                  [run[self] EXCEPT !.pc = "loop", !.idx = @ + 1,
                                    !.checked = 0,
                                    !.nodata = @ \cup {products[run[self].idx]}]
            /\ store' = store
            /\ written' = written

\* C11: when fetch_all returns the empty sequence for a product, the run
\* computes no statistics, leaves the product's store as it is (created or
\* not), requests no chart for it, raises nothing and goes on to the next
\* product.
C11_EmptyFetchSkipped == []C11_NoData /\ [][C11_Step]_vars

C11_Witness ==
    /\ run[1].nodata = {products[1]}
    /\ run[1].pc = "loop"
    /\ run[1].idx = 2
    /\ run[1].charts = {}
    /\ store[products[1]] = NoFile

\* The products at the positions 1..n of the list.
UpTo(n) == {products[j] : j \in 1..n}

\* An aborted run: it stopped at the product of position idx, produced no
\* overview and no README, and the row of every product it updated is the
\* last line of that product's store.
C12_Aborted ==
    \A self \in Procs :
        run[self].pc = "aborted" =>
            /\ run[self].idx \in 1..Len(products)
            /\ products[run[self].idx] \in run[self].fetched
            /\ run[self].skipped \cup run[self].fetched = UpTo(run[self].idx)
            /\ run[self].charts \subseteq UpTo(run[self].idx - 1)
            /\ ~run[self].overview
            /\ ~run[self].readme
            /\ \A slug \in run[self].charts :
                  /\ written[slug] # <<>>
                  /\ store[slug].lines # <<>>
                  /\ store[slug].lines[Len(store[slug].lines)][1]
                         = isoformat(written[slug][Len(written[slug])])

\* The exception of fetch_all ends the run, and an ended run changes no
\* store.
C12_Step ==
    \A self \in Procs :
        /\ (/\ run[self].pc = "fetching"
            /\ fa[self].pc = "raised"
            /\ run'[self] # run[self]) =>
               /\ run'[self].pc = "aborted"
               /\ run'[self].idx = run[self].idx
               /\ store' = store
        /\ (run[self].pc = "aborted" /\ run'[self].pc = "aborted") =>
               /\ run'[self] = run[self]
               /\ store' = store

\* C12: when fetch_all raises for the product at position i, the run
\* aborts: no product after position i is checked, fetched or appended, no
\* overview chart and no README are generated, and the rows appended before
\* in this run stay in their stores.
C12_FetchFailureAborts == []C12_Aborted /\ [][C12_Step]_vars

C12_Witness ==
    /\ run[1].pc = "aborted"
    /\ run[1].idx = 2
    /\ run[1].charts = {products[1]}
    /\ run[1].fetched = {products[1], products[2]}
    /\ written[products[1]] = <<1>>
    /\ Len(store[products[1]].lines) = 2

(***************************************************************************)
(* The client's lifetime, checked under SpecLive.                          *)
(***************************************************************************)
\* The client is open exactly while the run is in its loop, is closed once
\* when the run has ended, and fetch_all is only ever in progress with an
\* open client.
C13_OpenClose ==
    \A self \in Procs :
        /\ run[self].closes <= 1
        /\ run[self].pc \in {"loop", "fetching"} =>
              run[self].client = "open" /\ run[self].closes = 0
        /\ run[self].pc \in {"done", "aborted"} =>
              run[self].client = "closed" /\ run[self].closes = 1
        /\ fa[self].pc # "idle" => run[self].client = "open"
        /\ mr[self].responses # <<>> => run[self].client = "open"

\* A post is made with the client open.
C13_Step ==
    \A self \in Procs :
        Len(mr'[self].responses) > Len(mr[self].responses) =>
            run[self].client = "open" /\ run'[self].client = "open"

\* C13: in every run that opens the client, the client is eventually closed,
\* exactly once, when the run completes and when a fetch failure aborts it;
\* every page request of the run lies between the open and the close, and
\* none follows the close.
C13_ClientClosedOnce ==
    /\ []C13_OpenClose
    /\ [][C13_Step]_vars
    /\ (run[1].client = "open") ~> (run[1].client = "closed")

C13_Witness ==
    /\ run[1].pc = "aborted"
    /\ run[1].client = "closed"
    /\ run[1].closes = 1
    /\ run[1].fetched # {}

\* The number of failures that are no rate limit among the first k responses.
NonRateLimitFailures(rs, k) ==
    Cardinality({i \in 1..k : IsTransient(rs[i])})

\* C17: a 429 response makes the request sleep the fixed cooldown and retry
\* without advancing the exponential delay: the sleep after a 429 is
\* RATE_LIMIT_WAIT, and the sleep after the j-th failure that is no 429
\* (j from 0) is RETRY_DELAY_BASE^(j+1), however many 429 responses came
\* before it.
C17_RateLimitKeepsBackoff ==
    \A self \in Procs :
        LET rs == mr[self].responses
            sl == mr[self].sleeps
        IN  \A i \in 1..Len(sl) :
                IF IsRateLimit(rs[i])
                THEN sl[i] = RATE_LIMIT_WAIT
                ELSE sl[i] = Pow(RETRY_DELAY_BASE,
                                 NonRateLimitFailures(rs, i - 1) + 1)

\* C18: every call of _make_request ends after at most MAX_RETRIES posts,
\* whatever the responses are: each response, a 429 included, takes one
\* attempt of the budget, the call is still running only while fewer than
\* MAX_RETRIES posts were made, and it has returned or raised once
\* MAX_RETRIES were made.
C18_BoundedPosts ==
    \A self \in Procs :
        LET posts == Len(mr[self].responses)
        IN  /\ posts <= MAX_RETRIES
            /\ fa[self].pc = "request" =>
                   /\ posts = mr[self].attempt
                   /\ posts < MAX_RETRIES
            /\ posts = MAX_RETRIES => fa[self].pc \in {"got", "returned", "raised"}

C18_Witness ==
    /\ fa[1].pc = "got"
    /\ Len(mr[1].responses) = MAX_RETRIES
    /\ IsRateLimit(mr[1].responses[1])
    /\ IsTransient(mr[1].responses[2])
    /\ IsRateLimit(mr[1].responses[3])
    /\ mr[1].sleeps = <<RATE_LIMIT_WAIT, 4, RATE_LIMIT_WAIT>>

\* The pages of a fetch whose result is not the error variant.
RECURSIVE WithoutErrorPages(_)
WithoutErrorPages(pages) ==
    IF pages = <<>> THEN <<>>
    ELSE (IF Head(pages) = ListingError THEN <<>> ELSE <<Head(pages)>>)
         \o WithoutErrorPages(Tail(pages))

\* The offsets of a fetch are requested once each, in ascending order; a
\* payload that _make_request returned came with the last post of its
\* request; a fetch that has returned with a total > 0, all requests
\* answered, has requested every offset below the total, error pages
\* included, and holds the priced items of the pages that are no error.
C19_ErrorPageState ==
    \A self \in Procs :
        LET f == fa[self]
            rs == mr[self].responses
        IN  /\ \A i, j \in DOMAIN f.requested :
                   i < j => f.requested[i] < f.requested[j]
            /\ (f.pc = "got" /\ f.data = ListingError) =>
                   /\ rs[Len(rs)] = Response(200, ListingError)
                   /\ \A i \in 1..(Len(rs) - 1) : ~IsSuccess(rs[i])
            /\ (f.pc = "returned" /\ f.total > 0 /\ EveryRequestSucceeded(f)) =>
                   /\ Len(f.requested) = CeilDiv(f.total, ITEMS_PER_PAGE)
                   /\ [i \in DOMAIN f.listings |-> f.listings[i].id]
                          = PricedIdsOfPages(WithoutErrorPages(f.pages))
            /\ (f.pc = "returned" /\ Len(f.pages) >= 1 /\ f.pages[1] = ListingError) =>
                   /\ f.total = 0
                   /\ f.listings = <<>>
                   /\ f.requested = <<0>>

\* The step of fetch_all that follows an error page after the first: the
\* listings stay as they are, nothing is raised, and the fetch requests the
\* next offset if it is below the total and returns otherwise.
C19_Step ==
    \A self \in Procs :
        LET f == fa[self]
        IN  (/\ f.pc = "got"
             /\ f.data = ListingError
             /\ f.call = "page"
             /\ fa'[self] # f) =>
                /\ fa'[self].listings = f.listings
                /\ fa'[self].error = "none"
                /\ fa'[self].pages = Append(f.pages, ListingError)
                /\ IF f.offset + ITEMS_PER_PAGE < f.total
                   THEN /\ fa'[self].pc = "request"
                        /\ fa'[self].offset = f.offset + ITEMS_PER_PAGE
                        /\ fa'[self].requested =
                               Append(f.requested, f.offset + ITEMS_PER_PAGE)
                        /\ mr'[self].responses = <<>>
                   ELSE fa'[self].pc = "returned"

\* C19: a page response whose top-level result is the error variant
\* (ListingError) contributes zero listings, is not retried (its offset is
\* requested once and its post is the last of its request), and raises
\* nothing: fetch_all goes on to the remaining offsets and returns the
\* listings of the other pages.
C19_ErrorPageTolerated == []C19_ErrorPageState /\ [][C19_Step]_vars

C19_Witness ==
    /\ fa[1].pc = "returned"
    /\ fa[1].total = 120
    /\ fa[1].requested = <<0, 50, 100>>
    /\ ItemsOf(fa[1].pages[1]) = PricedItems
    /\ fa[1].pages[2] = ListingError
    /\ ItemsOf(fa[1].pages[3]) = MixedItems
    /\ fa[1].listings = <<[id |-> "a1", price |-> 100], [id |-> "b2", price |-> 250]>>
    /\ fa[1].error = "none"

(***************************************************************************)
(* Two concurrent runs, checked under SpecRace.                            *)
(***************************************************************************)
\* C14: two concurrent updates of one product on one day can both pass the
\* check of should_update_today before either appends, and then both append:
\* a store with two rows for one date is reached (C14_Witness), and a date
\* never has more rows than there are processes.
C14_RowsPerDateAtMostProcs ==
    \A slug \in Slugs : \A d \in Days :
        Cardinality(RowsOf(store[slug], d)) <= Cardinality(Procs)

C14_Witness ==
    \E slug \in Slugs :
        /\ Cardinality(RowsOf(store[slug], 1)) = 2
        /\ written[slug] = <<1, 1>>
        /\ slug \in run[1].charts
        /\ slug \in run[2].charts

(***************************************************************************)
(* Properties of DailyStats.from_prices, checked under SpecStats.          *)
(***************************************************************************)
\* The prices in ascending order, by insertion.
RECURSIVE Insert(_, _)
Insert(v, s) ==
    IF s = <<>> THEN <<v>>
    ELSE IF v <= Head(s) THEN <<v>> \o s
    ELSE <<Head(s)>> \o Insert(v, Tail(s))

RECURSIVE Ascending(_)
Ascending(s) == IF s = <<>> THEN <<>> ELSE Insert(Head(s), Ascending(Tail(s)))

\* A statistic v (hundredths) is the quotient a / n rounded to 2 decimals:
\* no hundredth is nearer to a / n.
IsRounded(v, a, n) ==
    LET d == v.h * n - 100 * a
    IN  2 * (IF d < 0 THEN -d ELSE d) <= n

\* C15: for every non-empty list P of integer prices, from_prices returns
\* count = len(P) (at least 1), min_price and max_price the least and the
\* greatest element of P (min_price <= max_price), and mean_price and
\* median_price the arithmetic mean and the statistical median of P rounded
\* to 2 decimals.
C15_FromPrices ==
    (calc.pc = "returned" /\ calc.prices # <<>>) =>
        LET P == calc.prices
            n == Len(P)
            sorted == Ascending(P)
            r == calc.result
        IN  /\ r.date = calc.day
            /\ r.count = n
            /\ r.count >= 1
            /\ r.min_price = sorted[1]
            /\ r.max_price = sorted[n]
            /\ r.min_price <= r.max_price
            /\ IsRounded(r.mean_price, SumSeq(P), n)
            /\ IF n % 2 = 1
               THEN IsRounded(r.median_price, sorted[(n + 1) \div 2], 1)
               ELSE IsRounded(r.median_price,
                              sorted[n \div 2] + sorted[n \div 2 + 1], 2)

C15_Witness ==
    /\ calc.pc = "returned"
    /\ calc.prices = <<250, 1, 2, 2>>
    /\ calc.result.count = 4
    /\ calc.result.min_price = 1
    /\ calc.result.max_price = 250
    /\ calc.result.mean_price = [h |-> 6375, float |-> TRUE]
    /\ calc.result.median_price = [h |-> 200, float |-> TRUE]

C21_Step ==
    \A self \in Procs :
        LET slug == products[run[self].idx]
            new == store'[slug].lines
        IN  (/\ run[self].pc = "fetching"
             /\ run'[self].pc = "loop"
             /\ store'[slug] # store[slug]) =>
                new[Len(new)][1] = isoformat(run[self].checked)

\* C21: the row an update appends is for the day that was checked: the date
\* written in the appended row equals the date for which should_update_today
\* found no row, also when the calendar day changes between the check and
\* the aggregation.
C21_RowForCheckedDay == [][C21_Step]_vars

(***************************************************************************)
(* The fetch behind an appended row, checked under Spec.                   *)
(***************************************************************************)
\* A step that appends a row to a store during the fetch of a process
\* follows a fetch that requested every offset below the total and whose
\* every request returned the payload of a 2xx response.
C22_Step ==
    \A self \in Procs :
        LET slug == products[run[self].idx]
            f == fa[self]
        IN  (/\ run[self].pc = "fetching"
             /\ run'[self].pc = "loop"
             /\ store'[slug] # store[slug]) =>
                /\ f.total > 0
                /\ Len(f.requested) = CeilDiv(f.total, ITEMS_PER_PAGE)
                /\ Len(f.pages) = Len(f.requested)
                /\ EveryRequestSucceeded(f)

\* C22: a stats row is appended for a product only when every page request of
\* that product's fetch (all offsets 0, P, ... below the total) ended with a
\* 2xx response: no row is computed from a fetch in which some page's
\* request ran out of attempts.
C22_RowOnlyFromCompleteFetch == [][C22_Step]_vars

====
